---- MODULE Spec2Model ----
(***************************************************************************)
(* Model of the theme-switch screen (App), its snapshot cross-fade, the    *)
(* per-card liked atoms (Cards) and the shader-source helpers glsl / frag. *)
(*                                                                         *)
(* Environment, as the libraries the code calls behave:                    *)
(*  - makeImageFromView(ref) rejects when ref.current is null (the ref'd   *)
(*    View is only mounted while the screen is not transitioning) and      *)
(*    otherwise resolves later with a bitmap of the view as it was when    *)
(*    the call was made; the bitmap exists from the native completion      *)
(*    until the awaiting JS continuation stores it;                        *)
(*  - Appearance.setColorScheme(s) notifies the change listeners iff the   *)
(*    scheme actually changes; the OS may change the scheme as well;       *)
(*  - assigning a shared value cancels the animation running on it, and a  *)
(*    cancelled animation still invokes its callback; withTiming towards   *)
(*    the value already held invokes its callback without animating.       *)
(* Durations are not modelled: pending captures, timers, frames and queued *)
(* callbacks complete in any order. The rendered scheme, the card atoms'   *)
(* rendered values and the mounted controls follow the state in the same   *)
(* step (React re-renders before the next event is handled).               *)
(***************************************************************************)
EXTENDS Integers, Sequences, FiniteSets

VARIABLES
    colorScheme,     \* useColorScheme(): the scheme the screen renders
    colorSchemeSv,   \* shared value mirroring the scheme of the last wipe
    progress,        \* shared value driving the shader uniform, 0..ProgressMax
    animation,       \* TRUE while a withTiming animation runs on progress
    callbacks,       \* withTiming callbacks invoked on the UI thread, not yet run on JS
    firstSnapshot,   \* useState<SkImage | null>
    secondSnapshot,  \* useState<SkImage | null>
    themeCalls,      \* changeTheme invocations suspended at their await
    listenerCalls,   \* appearance-listener invocations (timer / await pending)
    presses,         \* number of theme-toggle presses so far
    externals,       \* number of OS-caused appearance changes so far
    requests,        \* history: <<rendered scheme, requested scheme>> per setColorScheme
    liked,           \* the four card atoms
    likes,           \* number of like presses so far
    source,          \* glsl/frag input: the template's literal segments
    values,          \* glsl/frag input: the interpolated values
    compiles,        \* whether Skia.RuntimeEffect.Make accepts the source
    glslResult,      \* what glsl returned
    fragResult,      \* what frag returned or threw
    shaderSource     \* what transition(directionalwrap) returned or threw

appVars == <<colorScheme, colorSchemeSv, progress, animation, callbacks,
             firstSnapshot, secondSnapshot, themeCalls, listenerCalls,
             presses, externals, requests>>
cardVars == <<liked, likes>>
shaderVars == <<source, values, compiles, glslResult, fragResult, shaderSource>>
vars == <<appVars, cardVars, shaderVars>>

\* ---- bounds ----
MaxInputs == 3
MaxLikes == 2
MaxSegments == 3
ProgressMax == 2

\* ---- values ----
Null == <<>>
Schemes == {"light", "dark"}
Bitmap(scheme) == <<scheme>>
Cards == {"bike", "milk", "teddybear", "ball"}

\* ---- App: derived values ----
transitioning == firstSnapshot # Null /\ secondSnapshot # Null

\* changeTheme's argument to Appearance.setColorScheme
\* variants: requesting the rendered scheme; testing for "dark" instead
ThemeTargetSame(scheme) == scheme
ThemeTargetDarkDefault(scheme) == IF scheme = "dark" THEN "light" ELSE "dark"
ThemeTarget(scheme) == IF scheme = "light" THEN "dark" ELSE "light"

\* progress.value = <number>: cancels the running animation
CancelAnimation ==
    /\ animation' = FALSE
    /\ callbacks' = IF animation THEN callbacks + 1 ELSE callbacks

\* the appearance listener: schedules the 100 ms timer
Notify(id, scheme) ==
    listenerCalls' = listenerCalls \cup
        {[id |-> id, scheme |-> scheme, pc |-> "timer", image |-> Null]}

\* nothing of a transition remains pending
Quiet == themeCalls = {} /\ listenerCalls = {} /\ ~animation /\ callbacks = 0

\* ---- App: actions ----
\* onPress={changeTheme}, up to the await
TogglePress ==
    /\ ~transitioning
    /\ presses + externals < MaxInputs
    /\ presses' = presses + 1
    /\ progress' = 0
    /\ CancelAnimation
    /\ themeCalls' = themeCalls \cup
           {[id |-> presses + 1, scheme |-> colorScheme, pc |-> "capture",
             image |-> Bitmap(colorScheme)]}
    /\ UNCHANGED <<cardVars, shaderVars>>
    /\ UNCHANGED <<colorScheme, colorSchemeSv, firstSnapshot, secondSnapshot,
                   listenerCalls, externals, requests>>

\* the native capture of a changeTheme call completes
ThemeCaptureDone(c) ==
    /\ c.pc = "capture"
    /\ themeCalls' = (themeCalls \ {c}) \cup {[c EXCEPT !.pc = "resume"]}
    /\ UNCHANGED <<cardVars, shaderVars>>
    /\ UNCHANGED <<colorScheme, colorSchemeSv, progress, animation, callbacks,
                   firstSnapshot, secondSnapshot, listenerCalls, presses,
                   externals, requests>>

\* changeTheme after the await
ThemeResume(c) ==
    /\ c.pc = "resume"
    /\ themeCalls' = themeCalls \ {c}
    /\ firstSnapshot' = c.image
    /\ LET target == ThemeTarget(c.scheme) IN
        /\ requests' = Append(requests, <<c.scheme, target>>)
        /\ colorScheme' = target
        /\ IF target # colorScheme
             THEN Notify(<<"press", c.id>>, target)
             ELSE UNCHANGED listenerCalls
    /\ UNCHANGED <<cardVars, shaderVars>>
    /\ UNCHANGED <<colorSchemeSv, progress, animation, callbacks,
                   secondSnapshot, presses, externals>>

\* the OS changes the appearance
ExternalChange ==
    /\ presses + externals < MaxInputs
    /\ externals' = externals + 1
    /\ \E s \in Schemes \ {colorScheme} :
        /\ colorScheme' = s
        /\ Notify(<<"os", externals + 1>>, s)
    /\ UNCHANGED <<cardVars, shaderVars>>
    /\ UNCHANGED <<colorSchemeSv, progress, animation, callbacks, firstSnapshot,
                   secondSnapshot, themeCalls, presses, requests>>

\* the listener's timer fires: the callback runs up to its await
TimerFire(l) ==
    /\ l.pc = "timer"
    /\ listenerCalls' =
         IF transitioning
           THEN listenerCalls \ {l}
           ELSE (listenerCalls \ {l}) \cup
                  {[l EXCEPT !.pc = "capture", !.image = Bitmap(colorScheme)]}
    /\ UNCHANGED <<cardVars, shaderVars>>
    /\ UNCHANGED <<colorScheme, colorSchemeSv, progress, animation, callbacks,
                   firstSnapshot, secondSnapshot, themeCalls, presses,
                   externals, requests>>

\* the native capture of a listener call completes
ListenerCaptureDone(l) ==
    /\ l.pc = "capture"
    /\ listenerCalls' = (listenerCalls \ {l}) \cup {[l EXCEPT !.pc = "resume"]}
    /\ UNCHANGED <<cardVars, shaderVars>>
    /\ UNCHANGED <<colorScheme, colorSchemeSv, progress, animation, callbacks,
                   firstSnapshot, secondSnapshot, themeCalls, presses,
                   externals, requests>>

\* progress.value = withTiming(1, ..., callback)
StartTiming ==
    IF progress = ProgressMax
      THEN /\ animation' = FALSE
           /\ callbacks' = callbacks + (IF animation THEN 2 ELSE 1)
      ELSE /\ animation' = TRUE
           /\ callbacks' = IF animation THEN callbacks + 1 ELSE callbacks

\* the timer callback after the await
ListenerResume(l) ==
    /\ l.pc = "resume"
    /\ listenerCalls' = listenerCalls \ {l}
    /\ secondSnapshot' = l.image
    /\ colorSchemeSv' = l.scheme
    /\ StartTiming
    /\ UNCHANGED <<cardVars, shaderVars>>
    /\ UNCHANGED <<colorScheme, progress, firstSnapshot, themeCalls, presses,
                   externals, requests>>

\* one frame of the running animation
AnimationFrame ==
    /\ animation
    /\ progress < ProgressMax
    /\ progress' = progress + 1
    /\ IF progress + 1 = ProgressMax
         THEN animation' = FALSE /\ callbacks' = callbacks + 1
         ELSE UNCHANGED <<animation, callbacks>>
    /\ UNCHANGED <<cardVars, shaderVars>>
    /\ UNCHANGED <<colorScheme, colorSchemeSv, firstSnapshot, secondSnapshot,
                   themeCalls, listenerCalls, presses, externals, requests>>

\* the withTiming callback: runOnJS(setFirstSnapshot)(null); runOnJS(setSecondSnapshot)(null)
\* (variant: setSecondSnapshot(null) left out)
CompletionCallbackFirstOnly ==
    /\ callbacks > 0
    /\ callbacks' = callbacks - 1
    /\ firstSnapshot' = Null
    /\ UNCHANGED <<cardVars, shaderVars>>
    /\ UNCHANGED <<colorScheme, colorSchemeSv, progress, animation, themeCalls,
                   listenerCalls, presses, externals, requests, secondSnapshot>>

CompletionCallback ==
    /\ callbacks > 0
    /\ callbacks' = callbacks - 1
    /\ firstSnapshot' = Null
    /\ secondSnapshot' = Null
    /\ UNCHANGED <<cardVars, shaderVars>>
    /\ UNCHANGED <<colorScheme, colorSchemeSv, progress, animation, themeCalls,
                   listenerCalls, presses, externals, requests>>

\* ---- Cards ----
\* onPress={() => setIsLiked(!isLiked)} of one Card; the cards are mounted
\* with the rest of the screen, i.e. while it is not transitioning
\* (variant: one atom shared by the four cards)
PressLikeShared(card) ==
    /\ ~transitioning
    /\ likes < MaxLikes
    /\ likes' = likes + 1
    /\ liked' = [c \in Cards |-> ~liked[card]]
    /\ UNCHANGED <<appVars, shaderVars>>

PressLike(card) ==
    /\ ~transitioning
    /\ likes < MaxLikes
    /\ likes' = likes + 1
    /\ liked' = [liked EXCEPT ![card] = ~liked[card]]
    /\ UNCHANGED <<appVars, shaderVars>>

\* ---- glsl / frag ----
\* strings are sequences of characters; a template value is a string or a number
Str(s) == <<"str", s>>
Num(n) == <<"num", n>>
NaN == <<"nan">>
Undefined == <<"undefined">>

Segments == {<<>>, <<"a">>, <<"b", "c">>}
Numbers == {-7, 0, 12}
ValueDomain == {Str(<<>>), Str(<<"x">>), NaN} \cup {Num(n) : n \in Numbers}

\* templates of at most MaxSegments literal segments, one value between two segments
Templates ==
    UNION {{<<src, vals>> : src \in [1..n -> Segments], vals \in [1..(n - 1) -> ValueDomain]} :
           n \in 1..MaxSegments}

Digit(d) ==
    CASE d = 0 -> "0" [] d = 1 -> "1" [] d = 2 -> "2" [] d = 3 -> "3" [] d = 4 -> "4"
      [] d = 5 -> "5" [] d = 6 -> "6" [] d = 7 -> "7" [] d = 8 -> "8" [] d = 9 -> "9"

RECURSIVE NatToString(_)
NatToString(n) ==
    IF n < 10 THEN <<Digit(n)>> ELSE NatToString(n \div 10) \o <<Digit(n % 10)>>

\* String(e) as Array.prototype.join applies it to one element
ElementToString(e) ==
    CASE e[1] = "str" -> e[2]
      [] e[1] = "num" -> IF e[2] < 0 THEN <<"-">> \o NatToString(-e[2]) ELSE NatToString(e[2])
      [] e[1] = "nan" -> <<"N", "a", "N">>
      [] e[1] = "undefined" -> <<>>

\* Boolean(e)
Truthy(e) ==
    CASE e[1] = "str" -> e[2] # <<>>
      [] e[1] = "num" -> e[2] # 0
      [] e[1] = "nan" -> FALSE
      [] e[1] = "undefined" -> FALSE

\* source.flatMap((s, i) => [s, values[i]])
RECURSIVE FlatMap(_, _, _)
FlatMap(src, vals, i) ==
    IF i > Len(src) THEN <<>>
    ELSE <<Str(src[i]), IF i <= Len(vals) THEN vals[i] ELSE Undefined>>
         \o FlatMap(src, vals, i + 1)

\* processed.join("")
RECURSIVE Join(_)
Join(arr) == IF arr = <<>> THEN <<>> ELSE ElementToString(Head(arr)) \o Join(Tail(arr))

\* (variant: filter(Boolean) left out)
glslUnfiltered(src, vals) == Join(FlatMap(src, vals, 1))
glsl(src, vals) == Join(SelectSeq(FlatMap(src, vals, 1), Truthy))

\* Skia.RuntimeEffect.Make(code): the compiled effect, or null
RuntimeEffectMake(code) == IF compiles THEN <<"effect", code>> ELSE Null

Return(v) == <<"return", v>>
Throw(msg) == <<"throw", msg>>

\* (variant: the null test left out)
fragUnchecked(src, vals) == Return(RuntimeEffectMake(glsl(src, vals)))
frag(src, vals) ==
    LET code == glsl(src, vals)
        rt == RuntimeEffectMake(code)
    IN  IF rt = Null THEN Throw("Couln't Compile Shader") ELSE Return(rt)

\* the literal text of the three shader templates, one character standing for each
TransitionHead == <<"H">>
TransitionMain == <<"M">>
DirectionalWrapText == <<"W">>

directionalwrap == glsl(<<DirectionalWrapText>>, <<>>)
transition(t) == frag(<<TransitionHead, TransitionMain>>, <<Str(t)>>)

CallGlsl ==
    /\ glslResult = Null
    /\ glslResult' = <<glsl(source, values)>>
    /\ UNCHANGED <<source, values, compiles, fragResult, shaderSource>>
    /\ UNCHANGED <<appVars, cardVars>>

CallFrag ==
    /\ fragResult = Null
    /\ fragResult' = frag(source, values)
    /\ UNCHANGED <<source, values, compiles, glslResult, shaderSource>>
    /\ UNCHANGED <<appVars, cardVars>>

\* <Shader source={transition(directionalwrap)} ...>
CallTransition ==
    /\ shaderSource = Null
    /\ shaderSource' = transition(directionalwrap)
    /\ UNCHANGED <<source, values, compiles, glslResult, fragResult>>
    /\ UNCHANGED <<appVars, cardVars>>

\* ---- specification ----
AppInit ==
    /\ colorScheme \in Schemes \cup {"null"}
    /\ colorSchemeSv = colorScheme
    /\ progress = 0
    /\ animation = FALSE
    /\ callbacks = 0
    /\ firstSnapshot = Null
    /\ secondSnapshot = Null
    /\ themeCalls = {}
    /\ listenerCalls = {}
    /\ presses = 0
    /\ externals = 0
    /\ requests = <<>>

CardsInit ==
    /\ liked = [c \in Cards |-> FALSE]
    /\ likes = 0

ShaderIdle ==
    /\ source = <<>>
    /\ values = <<>>
    /\ compiles = TRUE
    /\ glslResult = Null
    /\ fragResult = Null
    /\ shaderSource = Null

Init == AppInit /\ CardsInit /\ ShaderIdle

Next ==
    \/ TogglePress
    \/ ExternalChange
    \/ \E c \in themeCalls : ThemeCaptureDone(c)
    \/ \E c \in themeCalls : ThemeResume(c)
    \/ \E l \in listenerCalls : TimerFire(l)
    \/ \E l \in listenerCalls : ListenerCaptureDone(l)
    \/ \E l \in listenerCalls : ListenerResume(l)
    \/ AnimationFrame
    \/ CompletionCallback

Spec == Init /\ [][Next]_vars

\* ---- theme toggles pressed one at a time, each from an idle screen, with
\* ---- the like controls; no OS appearance change
Idle == firstSnapshot = Null /\ secondSnapshot = Null /\ Quiet

ToggleNext ==
    \/ TogglePress /\ Idle
    \/ \E c \in themeCalls : ThemeCaptureDone(c)
    \/ \E c \in themeCalls : ThemeResume(c)
    \/ \E l \in listenerCalls : TimerFire(l)
    \/ \E l \in listenerCalls : ListenerCaptureDone(l)
    \/ \E l \in listenerCalls : ListenerResume(l)
    \/ AnimationFrame
    \/ CompletionCallback
    \/ \E card \in Cards : PressLike(card)

\* pending work is run: captures complete, timers fire, frames are drawn and
\* queued JS callbacks are called; the user's presses are under no obligation
Settle ==
    \/ \E c \in themeCalls : ThemeCaptureDone(c)
    \/ \E c \in themeCalls : ThemeResume(c)
    \/ \E l \in listenerCalls : TimerFire(l)
    \/ \E l \in listenerCalls : ListenerCaptureDone(l)
    \/ \E l \in listenerCalls : ListenerResume(l)
    \/ AnimationFrame
    \/ CompletionCallback

ToggleSpec == Init /\ [][ToggleNext]_vars /\ WF_vars(Settle)

\* ---- the shader-source helpers applied to bounded templates ----
ShaderInit ==
    /\ AppInit
    /\ CardsInit
    /\ \E t \in Templates : source = t[1] /\ values = t[2]
    /\ compiles \in BOOLEAN
    /\ glslResult = Null
    /\ fragResult = Null
    /\ shaderSource = Null

ShaderNext ==
    \/ CallGlsl
    \/ CallFrag
    \/ CallTransition

ShaderSpec == ShaderInit /\ [][ShaderNext]_vars

\* ---- properties ----
\* bitmaps captured and not yet discarded: the two state slots, and the
\* bitmaps returned by a capture whose continuation has not stored them yet
SnapshotsHeld ==
    (IF firstSnapshot # Null THEN 1 ELSE 0) + (IF secondSnapshot # Null THEN 1 ELSE 0)
    + Cardinality({c \in themeCalls : c.pc = "resume"})
    + Cardinality({l \in listenerCalls : l.pc = "resume"})

\* C1: a theme-toggle press made on an idle screen, with no further press and
\* no OS change until the screen is idle again, leads to a transitioning
\* screen (both snapshots non-null), and a transitioning screen leads to both
\* snapshots being null again.
C1_SingleToggleCompletes ==
    /\ (themeCalls # {}) ~> transitioning
    /\ transitioning ~> (firstSnapshot = Null /\ secondSnapshot = Null)

C1_Witness ==
    /\ presses = 1 /\ Len(requests) = 1 /\ Quiet
    /\ progress = ProgressMax
    /\ firstSnapshot = Null /\ secondSnapshot = Null

\* C2: whenever the screen is transitioning, the first snapshot shows the
\* scheme in effect before the change and the second the new scheme, so the
\* two snapshots show different schemes.
C2_BeforeAndAfter == transitioning => firstSnapshot # secondSnapshot

\* C3: at most two snapshots exist at once.
C3_AtMostTwoSnapshots == SnapshotsHeld <= 2

\* C4: frag throws when Skia.RuntimeEffect.Make returns null, never returns
\* null, and returns exactly the compiled effect of the assembled source
\* otherwise; the same holds of the shader the transitioning screen renders.
C4_CompileFailureIsFatal ==
    /\ fragResult # Null =>
         /\ fragResult # Return(Null)
         /\ compiles => fragResult = Return(<<"effect", glsl(source, values)>>)
         /\ ~compiles => fragResult[1] = "throw"
    /\ shaderSource # Null =>
         /\ shaderSource # Return(Null)
         /\ compiles => shaderSource =
              Return(<<"effect", TransitionHead \o DirectionalWrapText \o TransitionMain>>)
         /\ ~compiles => shaderSource[1] = "throw"

C4_Witness ==
    /\ ~compiles
    /\ fragResult # Null /\ fragResult[1] = "throw"
    /\ shaderSource # Null /\ shaderSource[1] = "throw"

\* C5: progress is 0 when the screen enters transitioning, never decreases
\* while the screen is transitioning, stays within 0..ProgressMax, and is
\* ProgressMax (the uniform's 1) when the completion callback clears snapshots.
C5_ProgressZeroToOne ==
    [][/\ (~transitioning /\ transitioning') => progress = 0
       /\ (transitioning /\ transitioning') => progress' >= progress
       /\ progress' \in 0..ProgressMax
       /\ (callbacks' < callbacks /\ (firstSnapshot # Null \/ secondSnapshot # Null))
            => progress = ProgressMax]_vars

\* C6: a transitioning episode is left only by the completion callback, and
\* the state it is left for has both snapshots null; so transitioning is
\* re-entered only from a state reached after both were null.
C6_IdleTransitioningIdle ==
    [][(transitioning /\ ~transitioning')
         => (CompletionCallback /\ firstSnapshot' = Null /\ secondSnapshot' = Null)]_vars

C6_Witness ==
    /\ presses = 1 /\ externals = 0 /\ Len(requests) = 1
    /\ progress = ProgressMax /\ callbacks = 0 /\ ~animation /\ listenerCalls = {}
    /\ firstSnapshot = Null /\ secondSnapshot = Null

\* C7: a like press negates the pressed card's atom and changes nothing
\* else: not the other cards, the snapshots, progress or the color scheme;
\* and the atoms change by like presses only.
C7_LikesIndependent ==
    [][/\ likes' # likes =>
            /\ \E card \in Cards : liked' = [liked EXCEPT ![card] = ~liked[card]]
            /\ UNCHANGED <<firstSnapshot, secondSnapshot, progress, colorScheme>>
       /\ liked' # liked => likes' = likes + 1]_vars

C7_Witness ==
    /\ liked = [c \in Cards |-> c \in {"milk", "ball"}]
    /\ likes = 2
    /\ firstSnapshot # Null

\* C8: once no capture, timer or animation remains pending, both snapshot
\* references are null.
C8_NothingHeldWhenQuiet == Quiet => (firstSnapshot = Null /\ secondSnapshot = Null)

\* C9: every changeTheme requests dark when the scheme it rendered is light
\* and light otherwise; a request made under the scheme the previous request
\* asked for restores that previous request's light or dark scheme, and two
\* requests made under the same rendered scheme ask for the same scheme.
C9_RequestsOpposite ==
    /\ \A i \in 1..Len(requests) :
         requests[i][2] = (IF requests[i][1] = "light" THEN "dark" ELSE "light")
    /\ \A i, j \in 1..Len(requests) :
         /\ (requests[i][1] \in Schemes /\ requests[j][1] = requests[i][2])
              => requests[j][2] = requests[i][1]
         /\ requests[i][1] = requests[j][1] => requests[i][2] = requests[j][2]
    /\ (Len(requests) = 2 /\ externals = 0 /\ themeCalls = {}
          /\ requests[1][1] \in Schemes /\ requests[2][1] = requests[1][2])
         => colorScheme = requests[1][1]

C9_Witness ==
    /\ Len(requests) = 2 /\ externals = 0 /\ Quiet
    /\ requests[1] = <<"dark", "light">>
    /\ requests[2] = <<"light", "dark">>
    /\ colorScheme = "dark"
    /\ firstSnapshot = Null /\ secondSnapshot = Null

\* C10: glsl returns the segments and values concatenated in template order,
\* where an empty string, a missing value, 0 and NaN contribute nothing and
\* every other string or number appears once, a number in decimal notation.
C10_Decimal(n) ==
    CASE n = -7 -> <<"-", "7">>
      [] n = 12 -> <<"1", "2">>

C10_Value(v) ==
    IF v[1] = "str" THEN v[2]
    ELSE IF v[1] = "num" /\ v[2] # 0 THEN C10_Decimal(v[2])
    ELSE <<>>

RECURSIVE C10_Expected(_)
C10_Expected(i) ==
    IF i > Len(source) THEN <<>>
    ELSE source[i] \o (IF i <= Len(values) THEN C10_Value(values[i]) ELSE <<>>)
         \o C10_Expected(i + 1)

C10_GlslConcatenatesTruthy ==
    glslResult # Null => glslResult = <<C10_Expected(1)>>

C10_Witness ==
    /\ source = <<<<"a">>, <<>>, <<"b", "c">>>>
    /\ values = <<Num(0), Num(-7)>>
    /\ glslResult = <<<<"a", "-", "7", "b", "c">>>>
====
